---- MODULE Spec2Model ----
(***************************************************************************)
(* Model of the PomoPal background service worker (src/service_worker.js): *)
(* the phase/timer state machine, the chrome.alarms registry it arms, the  *)
(* chrome.storage.local keys it reads and writes, and the asynchronous     *)
(* continuations (awaits, alarm-clear callbacks, setTimeout) of its        *)
(* handlers.  JavaScript runs one task at a time, so every action below is *)
(* one synchronous stretch of code, from an event or the completion of an  *)
(* await up to the next await or the end of the function.  A storage       *)
(* operation takes effect at the moment its await completes.               *)
(*                                                                         *)
(* Times are epoch milliseconds.  A date key 'YYYY-MM-DD' is modelled as   *)
(* the number of the UTC day; the local calendar is the UTC clock shifted  *)
(* by the zone's offset, which a daylight-saving zone changes once.        *)
(***************************************************************************)
EXTENDS Integers, Sequences, FiniteSets, TLC

VARIABLES
    state,      \* the in-memory TimerState object
    now,        \* Date.now()
    tz,         \* the time zone of the browser (fixed per run)
    alarms,     \* chrome.alarms registry: the registered alarms, each with its
                \* name and its `when`
    storage,    \* chrome.storage.local: settings, stats, streak, lastStreakDate
    startQ,     \* number of startNextPhase calls awaiting getSettings
    clearQ,     \* number of scheduleAlarms clearAll callbacks not yet run
    autoQ,      \* due times of the pending setTimeout auto-starts
    handlers,   \* timerEnd handlers awaiting inside incrementStat
    summaries,  \* computeStatsSummary calls in progress
    reply,      \* the last getStats response sent
    hist,       \* history: the last step taken and the TimerState before it
    run,        \* history: commands and completions since the last reset
    clearing,   \* clearStats: the removal awaited, and history of the clears
    out,        \* the messages sent by the last step: the state in the
                \* command's sendResponse and in the statusUpdate broadcast
    saveQ       \* saveSettings calls in progress, each at its await

vars == <<state, now, tz, alarms, storage, startQ, clearQ, autoQ, handlers,
          summaries, reply, hist, run, clearing, out, saveQ>>

-----------------------------------------------------------------------------
(* Bounds of the model *)

MaxTicks == 1        \* clock steps of a run with commands
MaxAutoTicks == 11   \* minutes of an unattended run
MaxStatTicks == 3    \* minutes, besides whole days, of a run over several days
MaxDays == 3         \* midnights crossed in a run over several days
MaxQueries == 1      \* getStats commands of a run
MaxPending == 2      \* continuations and callbacks pending at once
MaxCycles == 2       \* cap of cycleCount for a start during a work phase
MaxClears == 1       \* clearStats commands of a run
MaxBusyTicks == 2    \* minutes of a run without reset
MaxSaves == 1        \* saveSettings calls in progress at once

-----------------------------------------------------------------------------
(* Values *)

Null == -1

MsPerMinute == 60 * 1000
MsPerDay == 24 * 60 * MsPerMinute
TickMs == MsPerMinute
AutoStartDelayMs == 500
MsPerHour == 60 * MsPerMinute
FirstDay == 10
StartNow == FirstDay * MsPerDay

\* a time zone: local time is UTC + before up to the instant change, and
\* UTC + after from then on
FixedZone(offset) == [before |-> offset, after |-> offset, change |-> 0]
UTC == FixedZone(0)

DEFAULT_SETTINGS ==
    [workDuration |-> 25, shortBreakDuration |-> 5,
     longBreakDuration |-> 15, longBreakInterval |-> 4, theme |-> 0]

NoSettings == [k \in {} |-> 0]

IdleState ==
    [phase |-> "idle", running |-> FALSE, startTime |-> Null,
     endTime |-> Null, remainingTime |-> Null, cycleCount |-> 0]

Max(a, b) == IF a >= b THEN a ELSE b

-----------------------------------------------------------------------------
(* Settings *)

\* Object.assign({}, DEFAULT_SETTINGS, result.settings || {})
getSettings(store) ==
    [k \in DOMAIN DEFAULT_SETTINGS \cup DOMAIN store.settings |->
        IF k \in DOMAIN store.settings THEN store.settings[k]
        ELSE DEFAULT_SETTINGS[k]]

-----------------------------------------------------------------------------
(* Dates *)

\* date.toISOString().split('T')[0]: the UTC calendar day of an instant
ToISODate(t) == t \div MsPerDay

\* new Date('YYYY-MM-DD'): midnight UTC of that day
ParseDate(key) == key * MsPerDay

\* the local time value of an instant
LocalTime(t, zone) ==
    t + (IF t < zone.change THEN zone.before ELSE zone.after)

\* the instant of a local time value; a local time that occurs twice or not
\* at all is read with the offset in force before the change
ToUTC(w, zone) ==
    IF w - zone.before < zone.change THEN w - zone.before
    ELSE IF w - zone.after >= zone.change THEN w - zone.after
    ELSE w - zone.before

\* date.getDate(): the local calendar day of an instant
GetDate(t, zone) == LocalTime(t, zone) \div MsPerDay

\* date.setDate(day): the same local time of day on another local day
SetDate(t, zone, day) ==
    ToUTC(LocalTime(t, zone) + (day - GetDate(t, zone)) * MsPerDay, zone)

\* yesterday = new Date(dateKey); yesterday.setDate(yesterday.getDate() - 1);
\* yKey = yesterday.toISOString().split('T')[0]
YesterdayKey(dateKey, zone) ==
    LET y == ParseDate(dateKey)
    IN  ToISODate(SetDate(y, zone, GetDate(y, zone) - 1))

-----------------------------------------------------------------------------
(* Stats ledger *)

\* stats[key] || 0
Count(stats, key) == IF key \in DOMAIN stats THEN stats[key] ELSE 0

\* stats[dateKey] = (stats[dateKey] || 0) + 1
Incremented(stats, key) ==
    [k \in DOMAIN stats \cup {key} |->
        IF k = key THEN Count(stats, key) + 1 ELSE stats[k]]

\* the streak decision of incrementStat
NextStreak(lastDate, stored, dateKey, zone) ==
    LET streak == IF stored = Null THEN 0 ELSE stored
    IN  IF lastDate # Null
        THEN IF lastDate = YesterdayKey(dateKey, zone) THEN streak + 1
             ELSE IF lastDate # dateKey THEN 1
             ELSE streak
        ELSE 1

\* the loop of computeStatsSummary: for (i = 0; i < 7; i++) weekCount += ...
RECURSIVE WeekLoop(_, _, _, _)
WeekLoop(stats, t, zone, i) ==
    IF i >= 7 THEN 0
    ELSE Count(stats, ToISODate(SetDate(t, zone, GetDate(t, zone) - i)))
         + WeekLoop(stats, t, zone, i + 1)

WeekCount(stats, t, zone) == WeekLoop(stats, t, zone, 0)

TodayCount(stats, t) == Count(stats, ToISODate(t))

\* the configured length of a phase, in ms
Duration(settings, phase) ==
    (CASE phase = "work" -> settings.workDuration
       [] phase = "short_break" -> settings.shortBreakDuration
       [] phase = "long_break" -> settings.longBreakDuration
       [] OTHER -> 0) * MsPerMinute

-----------------------------------------------------------------------------
(* Timer state machine: the synchronous bodies *)

\* variant: the duration is taken as seconds
BeginPhaseInSeconds(s, phase, cycleCount, durationMinutes, t) ==
    [phase |-> phase, running |-> TRUE, startTime |-> t,
     endTime |-> t + durationMinutes * 1000,
     remainingTime |-> Null, cycleCount |-> cycleCount]

\* lines 240-243: state.running = true; startTime; endTime; remainingTime
BeginPhase(s, phase, cycleCount, durationMinutes, t) ==
    [phase |-> phase, running |-> TRUE, startTime |-> t,
     endTime |-> t + durationMinutes * 60 * 1000,
     remainingTime |-> Null, cycleCount |-> cycleCount]

\* variant: a phase is begun from idle only
StartNextPhaseFromIdleOnly(s, settings, t) ==
    IF s.phase = "idle"
    THEN BeginPhase(s, "work", s.cycleCount, settings.workDuration, t)
    ELSE s

\* variant: the long break is decided on the count before the increment
StartNextPhaseStaleCount(s, settings, t) ==
    IF s.phase \in {"idle", "short_break", "long_break"}
    THEN BeginPhase(s, "work", s.cycleCount, settings.workDuration, t)
    ELSE LET cc == s.cycleCount + 1
         IN  IF s.cycleCount % settings.longBreakInterval = 0
             THEN BeginPhase(s, "long_break", cc, settings.longBreakDuration, t)
             ELSE BeginPhase(s, "short_break", cc, settings.shortBreakDuration, t)

\* variant: the work phase after a long break opens a new round of cycles
StartNextPhaseNewRound(s, settings, t) ==
    IF s.phase = "long_break"
    THEN BeginPhase(s, "work", 0, settings.workDuration, t)
    ELSE IF s.phase \in {"idle", "short_break"}
    THEN BeginPhase(s, "work", s.cycleCount, settings.workDuration, t)
    ELSE LET cc == s.cycleCount + 1
         IN  IF cc % settings.longBreakInterval = 0
             THEN BeginPhase(s, "long_break", cc, settings.longBreakDuration, t)
             ELSE BeginPhase(s, "short_break", cc, settings.shortBreakDuration, t)

\* startNextPhase after `await getSettings()`
StartNextPhase(s, settings, t) ==
    IF s.phase \in {"idle", "short_break", "long_break"}
    THEN BeginPhase(s, "work", s.cycleCount, settings.workDuration, t)
    ELSE IF s.phase = "work"
    THEN LET cc == s.cycleCount + 1
         IN  IF cc % settings.longBreakInterval = 0
             THEN BeginPhase(s, "long_break", cc, settings.longBreakDuration, t)
             ELSE BeginPhase(s, "short_break", cc, settings.shortBreakDuration, t)
    ELSE IdleState

\* variant: the remaining time is measured from the start of the phase
PauseTimerFromStart(s, t) ==
    IF ~s.running THEN s
    ELSE [s EXCEPT !.running = FALSE,
                   !.remainingTime = Max(s.endTime - s.startTime, 0)]

\* variant: pauseTimer without its guard
PauseTimerUnguarded(s, t) ==
    [s EXCEPT !.running = FALSE,
              !.remainingTime = Max(s.endTime - t, 0)]

PauseTimer(s, t) ==
    IF ~s.running THEN s
    ELSE [s EXCEPT !.running = FALSE,
                   !.remainingTime = Max(s.endTime - t, 0)]

\* variant: the interrupted run is resumed at its full length
ResumeTimerRestartsRun(s, t) ==
    IF s.running \/ s.remainingTime = Null THEN s
    ELSE [s EXCEPT !.running = TRUE, !.startTime = t,
                   !.endTime = t + (s.endTime - s.startTime),
                   !.remainingTime = Null]

\* variant: remainingTime is not cleared
ResumeTimerKeepsRemaining(s, t) ==
    IF s.running \/ s.remainingTime = Null THEN s
    ELSE [s EXCEPT !.running = TRUE, !.startTime = t,
                   !.endTime = t + s.remainingTime]

ResumeTimer(s, t) ==
    IF s.running \/ s.remainingTime = Null THEN s
    ELSE [s EXCEPT !.running = TRUE, !.startTime = t,
                   !.endTime = t + s.remainingTime,
                   !.remainingTime = Null]

\* variant: the cycle count survives the reset
ResetTimerKeepsCycles(s) == [IdleState EXCEPT !.cycleCount = s.cycleCount]

ResetTimer(s) == IdleState

\* lines 332-333 of the timerEnd handler
PhaseEnded(s) == [s EXCEPT !.running = FALSE, !.remainingTime = Null]

\* chrome.alarms: the registry is the list of registered alarms, in the
\* order of their creation
NoAlarms == <<>>

Named(registry, name) == SelectSeq(registry, LAMBDA a : a.name = name)

\* the scheduled time of the alarm of that name, Null when there is none
When(registry, name) ==
    IF Named(registry, name) = <<>> THEN Null ELSE Named(registry, name)[1].when

\* an alarm of that name leaves the registry: chrome.alarms.clear, and a
\* one-shot alarm that has fired
Cancel(registry, name) == SelectSeq(registry, LAMBDA a : a.name # name)

\* chrome.alarms.create(name, { when }): an alarm of the same name is
\* cancelled and replaced
Create(registry, name, when) ==
    Append(Cancel(registry, name), [name |-> name, when |-> when])

\* variant: a timerEnd alarm is created only for an end time still ahead
ScheduledAlarmsAhead(s, t, registry) ==
    IF ~s.running THEN registry
    ELSE IF s.endTime > t
    THEN Create(Create(registry, "timerEnd", s.endTime), "updateBadge", Null)
    ELSE Create(registry, "updateBadge", Null)

\* variant: the two alarms are created beside the registered ones
ScheduledAlarmsBeside(s, t, registry) ==
    IF ~s.running THEN registry
    ELSE registry \o <<[name |-> "timerEnd", when |-> s.endTime],
                       [name |-> "updateBadge", when |-> Null]>>

\* the clearAll callback of scheduleAlarms (lines 203-206); the times of the
\* repeating updateBadge alarm are not tracked: it may fire at any moment
\* while it is registered
ScheduledAlarms(s, t, registry) ==
    IF ~s.running THEN registry
    ELSE Create(Create(registry, "timerEnd", s.endTime), "updateBadge", Null)

-----------------------------------------------------------------------------
(* History variables (not program state) *)

\* a phase has ended and the next one has not begun
IsJustCompleted(s) ==
    s.phase # "idle" /\ ~s.running /\ s.remainingTime = Null /\ s.endTime # Null

\* the last step, and the TimerState before it where a property needs it
Step(op) == [op |-> op, pre |-> state]
Other == [op |-> "other", pre |-> IdleState]

\* a message carrying a copy of TimerState, or no message
NoMsg == [sent |-> FALSE, state |-> IdleState]
Sent(s) == [sent |-> TRUE, state |-> s]
NoOut == [response |-> NoMsg, published |-> NoMsg]

\* pc:      the key whose removal clearStats awaits ("none": no clearStats
\*          is in progress)
\* overlap: a work completion was being recorded during the clearStats in
\*          progress
\* cleared: a clearStats has completed, with no work completion since it
\*          was called
\* count:   clearStats commands so far
NoClearing == [pc |-> "none", overlap |-> FALSE, cleared |-> FALSE, count |-> 0]

\* continuations and callbacks that have been requested and have not run
Pending == startQ + clearQ + Len(autoQ) + Len(handlers)

Quiescent == Pending = 0

\* started: a start command was issued since the last reset
\* window:  the last reset came between a handled wake and its auto-start
\* works:   timerEnd wakes handled in phase work since the last reset
\* queries: getStats commands so far
\* fired:   a timerEnd wake has been handled in the work phase in progress
\* captured: the remainingTime stored by the last effective pause of the phase
\*          in progress (Null: it has not been paused, or it has ended)
FreshRun ==
    [started |-> FALSE, window |-> FALSE, works |-> 0, queries |-> 0,
     fired |-> FALSE, captured |-> Null]

-----------------------------------------------------------------------------
(* Commands: chrome.runtime.onMessage *)

\* case 'start': startNextPhase() runs up to `await getSettings()`
CmdStart ==
    /\ Pending < MaxPending
    /\ startQ' = startQ + 1
    /\ run' = [run EXCEPT !.started = TRUE]
    /\ hist' = IF state.running THEN [op |-> "start", pre |-> IdleState]
               ELSE Other
    /\ out' = [response |-> Sent(state), published |-> NoMsg]
    /\ UNCHANGED <<clearing, state, now, tz, alarms, storage, clearQ, autoQ, handlers,
                   summaries, reply, saveQ>>

\* the continuation of startNextPhase once the settings have been read
StartContinue ==
    /\ startQ > 0
    /\ (state.phase = "work" /\ (state.running \/ state.remainingTime # Null))
            => state.cycleCount < MaxCycles
    /\ state' = StartNextPhase(state, getSettings(storage), now)
    /\ startQ' = startQ - 1
    /\ alarms' = NoAlarms                       \* clearAll
    /\ clearQ' = IF state.phase \in {"idle", "work", "short_break", "long_break"}
                 THEN clearQ + 1                \* scheduleAlarms
                 ELSE clearQ                    \* resetTimer
    /\ hist' = IF IsJustCompleted(state) /\ state.phase = "work"
               THEN [op |-> "afterWork", pre |-> IdleState]
               ELSE Other
    /\ out' = [response |-> NoMsg, published |-> Sent(state')]
    /\ run' = [run EXCEPT !.fired = FALSE, !.captured = Null]
    /\ UNCHANGED <<clearing, now, tz, storage, autoQ, handlers, summaries, reply, saveQ>>

\* the callback passed to chrome.alarms.clearAll by scheduleAlarms
ClearCallback ==
    /\ clearQ > 0
    /\ clearQ' = clearQ - 1
    /\ alarms' = ScheduledAlarms(state, now, alarms)
    /\ hist' = IF state.running /\ alarms # NoAlarms
               THEN [op |-> "rearmed", pre |-> IdleState]
               ELSE Other
    /\ out' = NoOut
    /\ UNCHANGED <<clearing, state, now, tz, storage, startQ, autoQ, handlers,
                   summaries, reply, run, saveQ>>

\* case 'pause'
CmdPause ==
    /\ state' = PauseTimer(state, now)
    /\ alarms' = IF state.running THEN NoAlarms ELSE alarms
    /\ hist' = [op |-> "pause", pre |-> state, captured |-> run.captured]
    /\ run' = IF state.running
              THEN [run EXCEPT !.captured = state'.remainingTime]
              ELSE run
    /\ out' = [response |-> Sent(state'),
               published |-> IF state.running THEN Sent(state') ELSE NoMsg]
    /\ UNCHANGED <<clearing, now, tz, storage, startQ, clearQ, autoQ, handlers,
                   summaries, reply, saveQ>>

\* case 'resume'
CmdResume ==
    /\ Pending < MaxPending
    /\ state' = ResumeTimer(state, now)
    /\ IF state.running \/ state.remainingTime = Null
       THEN UNCHANGED <<alarms, clearQ>>
       ELSE /\ alarms' = NoAlarms
            /\ clearQ' = clearQ + 1
    /\ hist' = IF hist.op = "pause"
               THEN [op |-> "pause_resume", pre |-> hist.pre]
               ELSE Other
    /\ out' = [response |-> Sent(state'),
               published |-> IF state.running \/ state.remainingTime = Null
                             THEN NoMsg ELSE Sent(state')]
    /\ UNCHANGED <<clearing, now, tz, storage, startQ, autoQ, handlers, summaries,
                   reply, run, saveQ>>

\* case 'reset'
CmdReset ==
    /\ state' = ResetTimer(state)
    /\ alarms' = NoAlarms
    /\ hist' = [op |-> "reset",
                pre |-> [IdleState EXCEPT !.phase = state.phase,
                                          !.running = state.running]]
    /\ run' = [FreshRun EXCEPT
                 !.window = autoQ # <<>> /\ startQ = 0 /\ handlers = <<>>,
                 !.queries = run.queries]
    /\ out' = [response |-> Sent(state'), published |-> Sent(state')]
    /\ UNCHANGED <<clearing, now, tz, storage, startQ, clearQ, autoQ, handlers,
                   summaries, reply, saveQ>>

-----------------------------------------------------------------------------
(* Alarms: chrome.alarms.onAlarm *)

RemoveAt(q, i) == [j \in 1..(Len(q) - 1) |-> IF j < i THEN q[j] ELSE q[j + 1]]

\* variant: the handler broadcasts before it changes the state
HandlerTailBroadcastsFirst ==
    /\ state' = PhaseEnded(state)
    /\ autoQ' = Append(autoQ, now + AutoStartDelayMs)
    /\ out' = [response |-> NoMsg, published |-> Sent(state)]

\* lines 332-345: the handler after the stats update; the auto-start is
\* handed to setTimeout
HandlerTail ==
    /\ state' = PhaseEnded(state)
    /\ autoQ' = Append(autoQ, now + AutoStartDelayMs)
    /\ out' = [response |-> NoMsg, published |-> Sent(state')]

\* the 'timerEnd' alarm fires (a one-shot alarm leaves the registry); the
\* handler runs to `await incrementStat(dateKey)` when the phase is work and
\* to its end otherwise
AlarmTimerEnd ==
    /\ When(alarms, "timerEnd") # Null
    /\ now >= When(alarms, "timerEnd")
    /\ Pending < MaxPending
    /\ alarms' = Cancel(alarms, "timerEnd")
    /\ IF state.phase = "work"
       THEN /\ handlers' = Append(handlers,
                   [pc |-> "getStats", dateKey |-> ToISODate(now),
                    stats |-> storage.stats, streak |-> Null,
                    seen |-> [streak |-> storage.streak,
                              lastStreakDate |-> storage.lastStreakDate],
                    cleared |-> clearing.cleared])
            /\ run' = [run EXCEPT !.works = run.works + 1, !.fired = TRUE]
            /\ hist' = [op |-> "wake", pre |-> IdleState, again |-> run.fired]
            /\ clearing' = [clearing EXCEPT !.overlap = clearing.pc # "none",
                                            !.cleared = FALSE]
            /\ out' = NoOut
            /\ UNCHANGED <<state, autoQ>>
       ELSE /\ HandlerTail
            /\ hist' = Other
            /\ run' = [run EXCEPT !.captured = Null]
            /\ UNCHANGED <<handlers, clearing>>
    /\ UNCHANGED <<now, tz, storage, startQ, clearQ, summaries, reply, saveQ>>

\* incrementStat: `const stats = await getStats()` completes
StatRead(i) ==
    /\ handlers[i].pc = "getStats"
    /\ handlers' = [handlers EXCEPT
          ![i].pc = "setStats",
          ![i].stats = Incremented(storage.stats, handlers[i].dateKey)]
    /\ hist' = Other
    /\ out' = NoOut
    /\ UNCHANGED <<clearing, state, now, tz, alarms, storage, startQ, clearQ, autoQ,
                   summaries, reply, run, saveQ>>

\* incrementStat: `await chrome.storage.local.set({ stats })` completes
StatWrite(i) ==
    /\ handlers[i].pc = "setStats"
    /\ storage' = [storage EXCEPT !.stats = handlers[i].stats]
    /\ handlers' = [handlers EXCEPT ![i].pc = "getStreak"]
    /\ hist' = Other
    /\ out' = NoOut
    /\ UNCHANGED <<clearing, state, now, tz, alarms, startQ, clearQ, autoQ, summaries,
                   reply, run, saveQ>>

\* incrementStat: `await chrome.storage.local.get(['streak', ...])` completes
StreakRead(i) ==
    /\ handlers[i].pc = "getStreak"
    /\ handlers' = [handlers EXCEPT
          ![i].pc = "setStreak",
          ![i].streak = NextStreak(storage.lastStreakDate, storage.streak,
                                   handlers[i].dateKey, tz)]
    /\ hist' = Other
    /\ out' = NoOut
    /\ UNCHANGED <<clearing, state, now, tz, alarms, storage, startQ, clearQ, autoQ,
                   summaries, reply, run, saveQ>>

\* incrementStat: the last `set` completes, incrementStat returns and the
\* handler runs to its end
StreakWrite(i) ==
    /\ handlers[i].pc = "setStreak"
    /\ storage' = [storage EXCEPT !.streak = handlers[i].streak,
                                  !.lastStreakDate = handlers[i].dateKey]
    /\ handlers' = RemoveAt(handlers, i)
    /\ HandlerTail
    /\ hist' = [op |-> "counted", pre |-> IdleState,
                dateKey |-> handlers[i].dateKey, seen |-> handlers[i].seen,
                cleared |-> handlers[i].cleared]
    /\ run' = [run EXCEPT !.captured = Null]
    /\ UNCHANGED <<clearing, now, tz, alarms, startQ, clearQ, summaries, reply, saveQ>>

\* the repeating 'updateBadge' alarm fires (a second after it was set, then
\* every minute, which is below the resolution of the clock here):
\* updateBadge() only redraws, and the alarm stays registered
AlarmUpdateBadge ==
    /\ Named(alarms, "updateBadge") # <<>>
    /\ hist' = Other
    /\ out' = NoOut
    /\ UNCHANGED <<clearing, state, now, tz, alarms, storage, startQ, clearQ, autoQ,
                   handlers, summaries, reply, run, saveQ>>

\* setTimeout(() => { startNextPhase(); }, 500) comes due: the clock has
\* reached the end of the delay
AutoStart ==
    /\ autoQ # <<>>
    /\ now' = Max(now, Head(autoQ))
    /\ autoQ' = Tail(autoQ)
    /\ startQ' = startQ + 1
    /\ hist' = Other
    /\ out' = NoOut
    /\ UNCHANGED <<clearing, state, tz, alarms, storage, clearQ, handlers,
                   summaries, reply, run, saveQ>>

-----------------------------------------------------------------------------
(* Storage failures: a chrome.storage.local promise rejects *)

\* a storage call of incrementStat rejects: the exception leaves incrementStat
\* and the async timerEnd listener, which has no try/catch, so lines 332-345
\* are not run
IncrementStatFails(i) ==
    /\ handlers' = RemoveAt(handlers, i)
    /\ hist' = [op |-> "failed", pre |-> IdleState]
    /\ out' = NoOut
    /\ UNCHANGED <<state, now, tz, alarms, storage, startQ, clearQ, autoQ,
                   summaries, reply, run, clearing, saveQ>>

\* the settings read of getSettings rejects: startNextPhase ends at line 218
GetSettingsFails ==
    /\ startQ > 0
    /\ startQ' = startQ - 1
    /\ hist' = [op |-> "failedStart", pre |-> IdleState]
    /\ out' = NoOut
    /\ UNCHANGED <<state, now, tz, alarms, storage, clearQ, autoQ, handlers,
                   summaries, reply, run, clearing, saveQ>>

-----------------------------------------------------------------------------
(* Statistics: case 'getStats' *)

\* computeStatsSummary() runs up to `await getStats()`
CmdGetStats ==
    /\ summaries = <<>>
    /\ summaries' = <<[pc |-> "getStats", today |-> 0, week |-> 0,
                       clean |-> clearing.cleared]>>
    /\ run' = [run EXCEPT !.queries = run.queries + 1]
    /\ hist' = Other
    /\ out' = NoOut
    /\ UNCHANGED <<clearing, state, now, tz, alarms, storage, startQ, clearQ, autoQ,
                   handlers, reply, saveQ>>

\* lines 137-148: the counts are computed once the ledger has been read
SummaryCount ==
    /\ summaries # <<>>
    /\ summaries[1].pc = "getStats"
    /\ summaries' = <<[pc |-> "getStreak",
                       today |-> TodayCount(storage.stats, now),
                       week |-> WeekCount(storage.stats, now, tz),
                       clean |-> summaries[1].clean /\ clearing.cleared]>>
    /\ hist' = [op |-> "summaryCount", pre |-> IdleState]
    /\ out' = NoOut
    /\ UNCHANGED <<clearing, state, now, tz, alarms, storage, startQ, clearQ, autoQ,
                   handlers, reply, run, saveQ>>

\* lines 150-152: the streak is read and the summary is sent
SummaryReply ==
    /\ summaries # <<>>
    /\ summaries[1].pc = "getStreak"
    /\ reply' = [today |-> summaries[1].today, week |-> summaries[1].week,
                 streak |-> IF storage.streak = Null THEN 0 ELSE storage.streak]
    /\ summaries' = <<>>
    /\ hist' = [op |-> "summaryReply", pre |-> IdleState,
                clean |-> summaries[1].clean /\ clearing.cleared]
    /\ out' = NoOut
    /\ UNCHANGED <<clearing, state, now, tz, alarms, storage, startQ, clearQ, autoQ,
                   handlers, run, saveQ>>

-----------------------------------------------------------------------------
(* Statistics: case 'clearStats' *)

\* clearStats() runs up to `await chrome.storage.local.remove('stats')`
CmdClearStats ==
    /\ clearing.pc = "none"
    /\ clearing' = [pc |-> "stats", overlap |-> handlers # <<>>,
                    cleared |-> FALSE, count |-> clearing.count + 1]
    /\ hist' = Other
    /\ out' = NoOut
    /\ UNCHANGED <<state, now, tz, alarms, storage, startQ, clearQ, autoQ,
                   handlers, summaries, reply, run, saveQ>>

\* remove('stats') completes: getStats() finds no ledger from now on
RemoveStats ==
    /\ clearing.pc = "stats"
    /\ storage' = [storage EXCEPT !.stats = [k \in {} |-> 0]]
    /\ clearing' = [clearing EXCEPT !.pc = "streak"]
    /\ hist' = Other
    /\ out' = NoOut
    /\ UNCHANGED <<state, now, tz, alarms, startQ, clearQ, autoQ, handlers,
                   summaries, reply, run, saveQ>>

\* variant: clearStats leaves the streak in storage
RemoveStreakForgotten ==
    /\ clearing.pc = "streak"
    /\ clearing' = [clearing EXCEPT !.pc = "lastStreakDate"]
    /\ hist' = Other
    /\ out' = NoOut
    /\ UNCHANGED <<state, now, tz, alarms, storage, startQ, clearQ, autoQ,
                   handlers, summaries, reply, run, saveQ>>

\* remove('streak') completes
RemoveStreak ==
    /\ clearing.pc = "streak"
    /\ storage' = [storage EXCEPT !.streak = Null]
    /\ clearing' = [clearing EXCEPT !.pc = "lastStreakDate"]
    /\ hist' = Other
    /\ out' = NoOut
    /\ UNCHANGED <<state, now, tz, alarms, startQ, clearQ, autoQ, handlers,
                   summaries, reply, run, saveQ>>

\* remove('lastStreakDate') completes, clearStats returns and
\* sendResponse({ success: true }) is called
RemoveLastStreakDate ==
    /\ clearing.pc = "lastStreakDate"
    /\ storage' = [storage EXCEPT !.lastStreakDate = Null]
    /\ clearing' = [clearing EXCEPT !.pc = "none",
                                    !.cleared = ~clearing.overlap,
                                    !.overlap = FALSE]
    /\ hist' = [op |-> "cleared", pre |-> IdleState]
    /\ out' = NoOut
    /\ UNCHANGED <<state, now, tz, alarms, startQ, clearQ, autoQ, handlers,
                   summaries, reply, run, saveQ>>

-----------------------------------------------------------------------------
(* The clock *)

Advance(dt) ==
    /\ now' = now + dt
    /\ hist' = Other
    /\ out' = NoOut
    /\ UNCHANGED <<clearing, state, tz, alarms, storage, startQ, clearQ, autoQ,
                   handlers, summaries, reply, run, saveQ>>

\* a minute passes
Tick ==
    /\ now + TickMs <= StartNow + MaxTicks * TickMs
    /\ Advance(TickMs)

-----------------------------------------------------------------------------
(* The timer under every interleaving of commands, wakes and continuations *)

QuickSettings ==
    [workDuration |-> 1, shortBreakDuration |-> 1, longBreakDuration |-> 2,
     longBreakInterval |-> 2]

NoStats == [k \in {} |-> 0]

EmptyStorage ==
    [settings |-> NoSettings, stats |-> NoStats, streak |-> Null,
     lastStreakDate |-> Null]

NoReply == [today |-> Null, week |-> Null, streak |-> Null]

Init ==
    /\ state = IdleState
    /\ now = StartNow
    /\ alarms = NoAlarms
    /\ startQ = 0
    /\ clearQ = 0
    /\ autoQ = <<>>
    /\ handlers = <<>>
    /\ summaries = <<>>
    /\ reply = NoReply
    /\ hist = [op |-> "init", pre |-> IdleState]
    /\ run = FreshRun
    /\ clearing = NoClearing
    /\ out = NoOut
    /\ saveQ = <<>>
    /\ tz = UTC
    /\ \E s \in {NoSettings, QuickSettings} :
          storage = [EmptyStorage EXCEPT !.settings = s]

Next ==
    \/ CmdStart
    \/ StartContinue
    \/ ClearCallback
    \/ CmdPause
    \/ CmdResume
    \/ CmdReset
    \/ AlarmTimerEnd
    \/ \E i \in 1..Len(handlers) : StatRead(i)
    \/ \E i \in 1..Len(handlers) : StatWrite(i)
    \/ \E i \in 1..Len(handlers) : StreakRead(i)
    \/ \E i \in 1..Len(handlers) : StreakWrite(i)
    \/ AlarmUpdateBadge
    \/ AutoStart
    \/ Tick

Spec == Init /\ [][Next]_vars

-----------------------------------------------------------------------------
(* The unattended timer: one start from idle, then only wakes *)

\* the popup shows the start button only while the timer is idle
StartFromIdle ==
    /\ state = IdleState
    /\ Quiescent
    /\ CmdStart

\* a minute passes
TickAuto ==
    /\ now + MsPerMinute <= StartNow + MaxAutoTicks * MsPerMinute
    /\ Advance(MsPerMinute)

InitAuto ==
    /\ state = IdleState
    /\ now = StartNow
    /\ alarms = NoAlarms
    /\ startQ = 0
    /\ clearQ = 0
    /\ autoQ = <<>>
    /\ handlers = <<>>
    /\ summaries = <<>>
    /\ reply = NoReply
    /\ hist = [op |-> "init", pre |-> IdleState]
    /\ run = FreshRun
    /\ clearing = NoClearing
    /\ out = NoOut
    /\ saveQ = <<>>
    /\ tz = UTC
    /\ \E n \in 1..3 :
          storage = [EmptyStorage EXCEPT
                       !.settings = [QuickSettings EXCEPT !.longBreakInterval = n]]

NextAuto ==
    \/ StartFromIdle
    \/ StartContinue
    \/ ClearCallback
    \/ AlarmTimerEnd
    \/ \E i \in 1..Len(handlers) : StatRead(i)
    \/ \E i \in 1..Len(handlers) : StatWrite(i)
    \/ \E i \in 1..Len(handlers) : StreakRead(i)
    \/ \E i \in 1..Len(handlers) : StreakWrite(i)
    \/ AlarmUpdateBadge
    \/ AutoStart
    \/ TickAuto

SpecAuto == InitAuto /\ [][NextAuto]_vars

-----------------------------------------------------------------------------
(* The statistics of an unattended timer over several days *)

\* the browser runs what is due before more time passes: no continuation or
\* callback is waiting, no timeout is pending (its delay is shorter than any
\* step of the clock) and no alarm is overdue
Prompt ==
    /\ startQ = 0 /\ clearQ = 0 /\ handlers = <<>>
    /\ autoQ = <<>>
    /\ (When(alarms, "timerEnd") # Null) => (When(alarms, "timerEnd") > now)

\* a minute passes
TickMinute ==
    /\ Prompt
    /\ now % MsPerHour < MaxStatTicks * MsPerMinute
    /\ Advance(MsPerMinute)

\* a day passes
NextDay ==
    /\ Prompt
    /\ ToISODate(now) - FirstDay < MaxDays
    /\ Advance(MsPerDay)

\* the popup asks for the statistics
AskStats ==
    /\ run.queries < MaxQueries
    /\ CmdGetStats

\* ledgers left by earlier completions: five on day 2 and one on day 9; two
\* on day 3 and one on day 4
EarlierStats ==
    { [EmptyStorage EXCEPT !.settings = QuickSettings],
      [EmptyStorage EXCEPT !.settings = QuickSettings,
            !.stats = (FirstDay - 8 :> 5) @@ (FirstDay - 1 :> 1),
            !.streak = 1, !.lastStreakDate = FirstDay - 1],
      [EmptyStorage EXCEPT !.settings = QuickSettings,
            !.stats = (FirstDay - 7 :> 2) @@ (FirstDay - 6 :> 1),
            !.streak = 2, !.lastStreakDate = FirstDay - 6] }

\* a zone that leaves daylight-saving time at 06:00 UTC on the second day of
\* the run (02:00 local, UTC-4 before and UTC-5 after)
AutumnZone ==
    [before |-> 0 - 4 * MsPerHour, after |-> 0 - 5 * MsPerHour,
     change |-> (FirstDay + 1) * MsPerDay + 6 * MsPerHour]

Zones == {FixedZone(0 - 5 * MsPerHour), UTC, FixedZone(2 * MsPerHour), AutumnZone}

InitStats ==
    /\ state = IdleState
    /\ now = StartNow
    /\ alarms = NoAlarms
    /\ startQ = 0
    /\ clearQ = 0
    /\ autoQ = <<>>
    /\ handlers = <<>>
    /\ summaries = <<>>
    /\ reply = NoReply
    /\ hist = [op |-> "init", pre |-> IdleState]
    /\ run = FreshRun
    /\ clearing = NoClearing
    /\ out = NoOut
    /\ saveQ = <<>>
    /\ tz \in Zones
    /\ storage \in EarlierStats

NextStats ==
    \/ StartFromIdle
    \/ StartContinue
    \/ ClearCallback
    \/ AlarmTimerEnd
    \/ \E i \in 1..Len(handlers) : StatRead(i)
    \/ \E i \in 1..Len(handlers) : StatWrite(i)
    \/ \E i \in 1..Len(handlers) : StreakRead(i)
    \/ \E i \in 1..Len(handlers) : StreakWrite(i)
    \/ AlarmUpdateBadge
    \/ AutoStart
    \/ AskStats
    \/ SummaryCount
    \/ SummaryReply
    \/ TickMinute
    \/ NextDay

SpecStats == InitStats /\ [][NextStats]_vars

-----------------------------------------------------------------------------
(* Clearing the statistics of an unattended timer *)

\* the options page asks for the statistics to be cleared
AskClear ==
    /\ clearing.count < MaxClears
    /\ CmdClearStats

InitClear ==
    /\ InitStats
    /\ tz = UTC

NextClear ==
    \/ StartFromIdle
    \/ StartContinue
    \/ ClearCallback
    \/ AlarmTimerEnd
    \/ \E i \in 1..Len(handlers) : StatRead(i)
    \/ \E i \in 1..Len(handlers) : StatWrite(i)
    \/ \E i \in 1..Len(handlers) : StreakRead(i)
    \/ \E i \in 1..Len(handlers) : StreakWrite(i)
    \/ AutoStart
    \/ AskStats
    \/ SummaryCount
    \/ SummaryReply
    \/ AskClear
    \/ RemoveStats
    \/ RemoveStreak
    \/ RemoveLastStreakDate
    \/ TickMinute

SpecClear == InitClear /\ [][NextClear]_vars

-----------------------------------------------------------------------------
(* The timer with the commands start, pause and resume (no reset), for     *)
(* MaxBusyTicks minutes                                                    *)

\* a minute passes
TickBusy ==
    /\ now + MsPerMinute <= StartNow + MaxBusyTicks * MsPerMinute
    /\ Advance(MsPerMinute)

InitBusy ==
    /\ Init
    /\ storage.settings = QuickSettings

NextBusy ==
    \/ CmdStart
    \/ CmdPause
    \/ CmdResume
    \/ StartContinue
    \/ ClearCallback
    \/ AlarmTimerEnd
    \/ \E i \in 1..Len(handlers) : StatRead(i)
    \/ \E i \in 1..Len(handlers) : StatWrite(i)
    \/ \E i \in 1..Len(handlers) : StreakRead(i)
    \/ \E i \in 1..Len(handlers) : StreakWrite(i)
    \/ AutoStart
    \/ TickBusy

SpecBusy == InitBusy /\ [][NextBusy]_vars

-----------------------------------------------------------------------------
(* The settings saved from the options page while the timer runs *)

\* Object.assign({}, result.settings || {}, newSettings)
Merged(stored, newSettings) ==
    [k \in DOMAIN stored \cup DOMAIN newSettings |->
        IF k \in DOMAIN newSettings THEN newSettings[k] ELSE stored[k]]

\* what the form of the options page can send: its five fields, or DEFAULTS
LongerSettings ==
    [workDuration |-> 2, shortBreakDuration |-> 2, longBreakDuration |-> 3,
     longBreakInterval |-> 3, theme |-> 1]

FormSettings == {LongerSettings, DEFAULT_SETTINGS}

\* case 'saveSettings': saveSettings runs up to its `await get(['settings'])`
CmdSaveSettings(newSettings) ==
    /\ Len(saveQ) < MaxSaves
    /\ saveQ' = Append(saveQ, [pc |-> "getSettings", new |-> newSettings,
                               settings |-> NoSettings])
    /\ hist' = Other
    /\ out' = NoOut
    /\ UNCHANGED <<state, now, tz, alarms, storage, startQ, clearQ, autoQ,
                   handlers, summaries, reply, run, clearing>>

\* saveSettings: the read completes and the `set` is requested
SaveRead(i) ==
    /\ saveQ[i].pc = "getSettings"
    /\ saveQ' = [saveQ EXCEPT
          ![i].pc = "setSettings",
          ![i].settings = Merged(storage.settings, saveQ[i].new)]
    /\ hist' = Other
    /\ out' = NoOut
    /\ UNCHANGED <<state, now, tz, alarms, storage, startQ, clearQ, autoQ,
                   handlers, summaries, reply, run, clearing>>

\* variant: the saved durations are applied to the phase that is running
SaveWriteReschedules(i) ==
    /\ saveQ[i].pc = "setSettings"
    /\ storage' = [storage EXCEPT !.settings = saveQ[i].settings]
    /\ saveQ' = RemoveAt(saveQ, i)
    /\ state' = IF state.running
                THEN [state EXCEPT !.endTime =
                        state.startTime
                          + Duration(getSettings(storage'), state.phase)]
                ELSE state
    /\ hist' = Other
    /\ out' = NoOut
    /\ UNCHANGED <<now, tz, alarms, startQ, clearQ, autoQ, handlers,
                   summaries, reply, run, clearing>>

\* saveSettings: `await chrome.storage.local.set({ settings })` completes
SaveWrite(i) ==
    /\ saveQ[i].pc = "setSettings"
    /\ storage' = [storage EXCEPT !.settings = saveQ[i].settings]
    /\ saveQ' = RemoveAt(saveQ, i)
    /\ hist' = Other
    /\ out' = NoOut
    /\ UNCHANGED <<state, now, tz, alarms, startQ, clearQ, autoQ, handlers,
                   summaries, reply, run, clearing>>

\* the user of the popup acts when the timer has settled; the steps of
\* saveSettings interleave with every step of the timer
NextSettings ==
    \/ StartFromIdle
    \/ StartContinue
    \/ ClearCallback
    \/ Quiescent /\ CmdPause
    \/ Quiescent /\ CmdResume
    \/ Quiescent /\ CmdReset
    \/ AlarmTimerEnd
    \/ \E i \in 1..Len(handlers) : StatRead(i)
    \/ \E i \in 1..Len(handlers) : StatWrite(i)
    \/ \E i \in 1..Len(handlers) : StreakRead(i)
    \/ \E i \in 1..Len(handlers) : StreakWrite(i)
    \/ AutoStart
    \/ Tick
    \/ \E newSettings \in FormSettings : CmdSaveSettings(newSettings)
    \/ \E i \in 1..Len(saveQ) : SaveRead(i)
    \/ \E i \in 1..Len(saveQ) : SaveWrite(i)

SpecSettings == Init /\ [][NextSettings]_vars

\* the event loop runs every task it has queued: the continuation of an
\* await whose promise has resolved, the callback of clearAll, and a timeout
\* that has come due
SpecAutoLive ==
    /\ SpecAuto
    /\ WF_vars(StartContinue)
    /\ WF_vars(ClearCallback)
    /\ WF_vars(AutoStart)
    /\ WF_vars(\E i \in 1..Len(handlers) : StatRead(i))
    /\ WF_vars(\E i \in 1..Len(handlers) : StatWrite(i))
    /\ WF_vars(\E i \in 1..Len(handlers) : StreakRead(i))
    /\ WF_vars(\E i \in 1..Len(handlers) : StreakWrite(i))

-----------------------------------------------------------------------------
(* The unattended timer with failing storage *)

NextFail ==
    \/ NextAuto
    \/ \E i \in 1..Len(handlers) : IncrementStatFails(i)
    \/ GetSettingsFails

SpecFail == InitAuto /\ [][NextFail]_vars

-----------------------------------------------------------------------------
(* Properties *)

Truth(b) == IF b THEN 1 ELSE 0

IsIdle(s) ==
    s.phase = "idle" /\ ~s.running /\ s.endTime = Null /\ s.remainingTime = Null
IsRunning(s) == s.running /\ s.endTime # Null /\ s.remainingTime = Null
IsPaused(s) == ~s.running /\ s.remainingTime # Null

\* C1 as stated: in every reachable state TimerState is exactly one of idle,
\* running-with-endTime and paused-with-remainingTime.
C1_ExactlyOneOfThree ==
    Truth(IsIdle(state)) + Truth(IsRunning(state)) + Truth(IsPaused(state)) = 1

\* C1 amended: in every reachable state TimerState is exactly one of idle,
\* running-with-endTime, paused-with-remainingTime and just-completed (a phase
\* other than idle, not running, no remainingTime, the ended phase's endTime
\* still set), the shape the timerEnd handler leaves until the auto-start.
C1_ExactlyOneOfFour ==
    Truth(IsIdle(state)) + Truth(IsRunning(state)) + Truth(IsPaused(state))
        + Truth(IsJustCompleted(state)) = 1

C1_Witness ==
    /\ IsJustCompleted(state)
    /\ state.phase = "work"
    /\ autoQ # <<>>

\* C2: right after reset, from whatever state, TimerState is exactly {phase:
\* idle, running: false, startTime: null, endTime: null, remainingTime: null,
\* cycleCount: 0}.
C2_ResetYieldsIdle ==
    hist.op = "reset" =>
        state = [phase |-> "idle", running |-> FALSE, startTime |-> Null,
                 endTime |-> Null, remainingTime |-> Null, cycleCount |-> 0]

C2_Witness ==
    /\ hist.op = "reset"
    /\ hist.pre.running
    /\ hist.pre.phase = "long_break"

\* C3: as long as no start command has been issued since the last reset, the
\* timer stays idle with cycleCount 0 and no alarm armed: nothing requested
\* before the reset is delivered to the state machine after it.
C3_NothingDeliveredAfterReset ==
    ~run.started =>
        /\ state.phase = "idle"
        /\ state.cycleCount = 0
        /\ When(alarms, "timerEnd") = Null

\* C4: after a reset that came between a handled wake and its deferred
\* auto-start, and with no start command since, the timer stays idle.
C4_ResetSuppressesAutoStart ==
    (run.window /\ ~run.started) => state.phase = "idle"

\* C5: in an unattended run (one start from idle, then only wakes) the break
\* that follows the k-th completed work phase is the long break exactly when
\* k mod longBreakInterval = 0.
C5_LongBreakEveryNth ==
    state.phase \in {"short_break", "long_break"} =>
        (state.phase = "long_break"
            <=> run.works % getSettings(storage).longBreakInterval = 0)

C5_Witness ==
    /\ state.phase = "short_break"
    /\ state.running
    /\ run.works = 3
    /\ getSettings(storage).longBreakInterval = 2

\* C6: pause immediately followed by resume, from a running state with
\* endTime - now = r >= 0 and with no clock advance, gives a running state in
\* the same phase with endTime - now = r and the same cycleCount.
C6_PauseResumeRoundTrip ==
    (hist.op = "pause_resume" /\ hist.pre.running /\ hist.pre.endTime - now >= 0)
    =>  /\ state.running
        /\ state.phase = hist.pre.phase
        /\ state.endTime - now = hist.pre.endTime - now
        /\ state.cycleCount = hist.pre.cycleCount

C6_Witness ==
    /\ hist.op = "pause_resume"
    /\ hist.pre.running
    /\ hist.pre.endTime - now > 0
    /\ now > hist.pre.startTime
    /\ state.running

\* C7: a start command issued while the timer is running leaves TimerState
\* unchanged when it takes effect: phase, startTime, endTime and cycleCount
\* are as before.
C7_StartWhileRunningChangesNothing ==
    [][(hist.op = "start" /\ state.running /\ startQ = 1 /\ startQ' = 0)
        => /\ state'.phase = state.phase
           /\ state'.startTime = state.startTime
           /\ state'.endTime = state.endTime
           /\ state'.cycleCount = state.cycleCount]_vars

\* start() and the timerEnd handler are in progress from their call to the end
\* of their last continuation
InProgress == startQ + Len(handlers)

\* C8: the mutating operations exclude one another: TimerState changes only
\* when no operation is in progress, or when the single operation in progress
\* finishes.
C8_MutualExclusion ==
    [][state' # state =>
        \/ InProgress = 0
        \/ InProgress = 1 /\ InProgress' = 0]_vars

\* C9: a work completion on day d that found lastStreakDate and streak stored
\* leaves lastStreakDate = d and streak = 1 with no lastStreakDate, streak + 1
\* with lastStreakDate = d - 1, streak unchanged with lastStreakDate = d, and
\* 1 otherwise.
C9_StreakRule ==
    hist.op = "counted" =>
        LET d == hist.dateKey
            last == hist.seen.lastStreakDate
            old == IF hist.seen.streak = Null THEN 0 ELSE hist.seen.streak
        IN  /\ storage.lastStreakDate = d
            /\ storage.streak = IF last = Null THEN 1
                                ELSE IF last = d - 1 THEN old + 1
                                ELSE IF last = d THEN old
                                ELSE 1

RECURSIVE SumOfDays(_, _, _)
SumOfDays(stats, day, n) ==
    IF n = 0 THEN 0 ELSE Count(stats, day) + SumOfDays(stats, day - 1, n - 1)

\* C10: the summary computed by getStats has today = the ledger count of
\* today's date key and week = the sum of the ledger counts of today and the 6
\* days before it, a missing day counting 0 and older days left out.
C10_TodayAndWeek ==
    hist.op = "summaryCount" =>
        /\ summaries[1].today = Count(storage.stats, ToISODate(now))
        /\ summaries[1].week = SumOfDays(storage.stats, ToISODate(now), 7)

\* C11: once a clearStats has completed and no work completion has been
\* recorded since it was called, the ledger has no entries and streak and
\* lastStreakDate are absent; a getStats that runs wholly in that situation
\* replies {today: 0, week: 0, streak: 0}; and a work completion that begins
\* in that situation leaves streak = 1.
C11_ClearedStats ==
    /\ clearing.cleared =>
          /\ storage.stats = NoStats
          /\ storage.streak = Null
          /\ storage.lastStreakDate = Null
    /\ (hist.op = "summaryReply" /\ hist.clean) =>
          reply = [today |-> 0, week |-> 0, streak |-> 0]
    /\ (hist.op = "counted" /\ hist.cleared) => storage.streak = 1

C11_Witness ==
    /\ hist.op = "counted"
    /\ hist.cleared
    /\ storage.streak = 1
    /\ reply = [today |-> 0, week |-> 0, streak |-> 0]
    /\ clearing.count = 1

\* the ledger and the streak fields agree: an empty ledger goes with no streak
\* and no lastStreakDate, and a streak >= 1 with a lastStreakDate that has a
\* ledger entry
Agree(store) ==
    /\ store.stats = NoStats =>
          (store.streak = Null /\ store.lastStreakDate = Null)
    /\ (store.streak # Null /\ store.streak >= 1) =>
          store.lastStreakDate \in DOMAIN store.stats

\* C12: clearStats is atomic: under every interleaving of the storage steps
\* of clearStats, incrementStat and computeStatsSummary, the ledger and the
\* streak fields agree in every stored state.
C12_ClearIsAtomic == Agree(storage)

\* C13: a single work phase is counted at most once, however many times it
\* is paused and resumed: a timerEnd wake handled in phase work is the first
\* one handled in that work phase (pause and resume continue the phase, the
\* continuation of startNextPhase ends it).
C13_WorkPhaseCountedOnce ==
    hist.op = "wake" => ~hist.again

\* C14: pause when not running, and resume when running or with no
\* remainingTime, leave TimerState and the alarms as they are, request no
\* alarm and broadcast no statusUpdate.
C14_InvalidTransitionsAreNoOps ==
    [][(\/ CmdPause /\ ~state.running
        \/ CmdResume /\ (state.running \/ state.remainingTime = Null))
       => /\ state' = state
          /\ alarms' = alarms
          /\ clearQ' = clearQ
          /\ ~out'.published.sent]_vars

C14_Witness ==
    /\ hist.op = "pause"
    /\ ~hist.pre.running
    /\ IsJustCompleted(hist.pre)
    /\ state = hist.pre
    /\ out.response.sent
    /\ ~out.published.sent

\* C15: after a timerEnd wake whose stats increment fails, the machine has
\* left Running for the completed phase: it is not running an ended phase
\* with no timerEnd alarm, no auto-start and no continuation pending.
C15_FailedIncrementDoesNotStall ==
    hist.op = "failed" =>
        ~(state.running /\ When(alarms, "timerEnd") = Null /\ Pending = 0)

\* C16: in an unattended run (no reset), once the timerEnd wake of a work
\* phase has been handled the timer eventually runs a short or long break
\* with a timerEnd alarm armed, and once the wake of a break has been handled
\* it eventually runs a work phase with a timerEnd alarm armed.
C16_NextPhaseBegins ==
    /\ (IsJustCompleted(state) /\ state.phase = "work")
          ~> (/\ state.running
              /\ state.phase \in {"short_break", "long_break"}
              /\ When(alarms, "timerEnd") = state.endTime)
    /\ (IsJustCompleted(state) /\ state.phase \in {"short_break", "long_break"})
          ~> (/\ state.running
              /\ state.phase = "work"
              /\ When(alarms, "timerEnd") = state.endTime)

C16_Witness ==
    /\ state.running
    /\ state.phase = "work"
    /\ state.cycleCount = 2
    /\ When(alarms, "timerEnd") = state.endTime
    /\ run.works = 2

\* C17: the state carried in the response to a start command issued in Idle
\* with nothing pending is the state after the start: phase work, running.
C17_StartResponseIsRunningWork ==
    [][(CmdStart /\ state.phase = "idle" /\ Pending = 0)
          => (/\ out'.response.sent
              /\ out'.response.state.phase = "work"
              /\ out'.response.state.running)]_vars

\* C18: cycleCount never decreases in a step other than the reset command:
\* start, pause, resume, the continuation of startNextPhase, the timerEnd
\* handler and the auto-start after a phase (a long break included) keep it
\* or raise it.
C18_CycleCountOnlyResetByReset ==
    [][state'.cycleCount >= state.cycleCount \/ CmdReset]_vars

\* a work phase begun after a long break, the cycle count kept
C18_Witness ==
    /\ state.phase = "work"
    /\ state.running
    /\ getSettings(storage).longBreakInterval = 2
    /\ state.cycleCount = 2

\* C19: cycleCount counts completed work phases: it never exceeds the number
\* of timerEnd wakes handled in phase work since the last reset, whatever
\* commands were issued in between.
C19_CycleCountIsWorkCompletions ==
    state.cycleCount <= run.works

\* C20: right after a pause command taken while running, running is false,
\* remainingTime is max(endTime before - now, 0), phase and cycleCount are
\* unchanged, no timerEnd or updateBadge alarm is armed, and endTime still
\* holds the end time of the interrupted run; and as long as the timer is
\* paused no alarm is armed.
C20_PauseKeepsEndTime ==
    /\ (hist.op = "pause" /\ hist.pre.running) =>
          /\ ~state.running
          /\ state.remainingTime = Max(hist.pre.endTime - now, 0)
          /\ state.phase = hist.pre.phase
          /\ state.cycleCount = hist.pre.cycleCount
          /\ alarms = NoAlarms
          /\ state.endTime = hist.pre.endTime
          /\ state.startTime = hist.pre.startTime
    /\ IsPaused(state) => alarms = NoAlarms

\* C20 as stated: the pause clears endTime
C20_PauseClearsEndTime ==
    (hist.op = "pause" /\ hist.pre.running) =>
        /\ ~state.running
        /\ state.remainingTime = Max(hist.pre.endTime - now, 0)
        /\ state.phase = hist.pre.phase
        /\ state.cycleCount = hist.pre.cycleCount
        /\ alarms = NoAlarms
        /\ state.endTime = Null

\* a break paused after the clock has moved
C20_Witness ==
    /\ hist.op = "pause"
    /\ hist.pre.running
    /\ hist.pre.phase = "short_break"
    /\ now > hist.pre.startTime
    /\ state.remainingTime > 0
    /\ state.endTime = hist.pre.endTime

\* C21: in every reachable state at most one timerEnd alarm and at most one
\* updateBadge alarm are registered and no other alarm is; when a clearAll
\* callback of scheduleAlarms arms the alarms while alarms are registered
\* (callbacks of earlier start and resume calls still pending), the new
\* registrations replace the old ones and timerEnd is set at the current
\* endTime.
C21_OneWakePerSlot ==
    /\ \A i \in 1..Len(alarms) : alarms[i].name \in {"timerEnd", "updateBadge"}
    /\ Len(Named(alarms, "timerEnd")) <= 1
    /\ Len(Named(alarms, "updateBadge")) <= 1
    /\ hist.op = "rearmed" =>
          /\ Len(alarms) = 2
          /\ When(alarms, "timerEnd") = state.endTime

\* the callback of an earlier scheduleAlarms call has armed the alarms over
\* the ones a later callback had registered
C21_Witness ==
    /\ hist.op = "rearmed"
    /\ state.running
    /\ Len(alarms) = 2
    /\ When(alarms, "timerEnd") = state.endTime

\* C22: when startNextPhase runs from idle or from a just-completed short or
\* long break, the result is a running work phase with startTime = now,
\* endTime = startTime + workDuration, no remainingTime and the cycleCount
\* unchanged; when it runs from a just-completed work phase the result is a
\* running short or long break with startTime = now and endTime = startTime
\* + the duration of that break; the durations are those stored when the
\* settings read completes.
C22_StartBeginsConfiguredPhase ==
    [][StartContinue =>
        LET settings == getSettings(storage)
        IN  /\ (\/ IsIdle(state)
                \/ (IsJustCompleted(state)
                       /\ state.phase \in {"short_break", "long_break"}))
                  => state' = [phase |-> "work", running |-> TRUE,
                               startTime |-> now,
                               endTime |-> now + Duration(settings, "work"),
                               remainingTime |-> Null,
                               cycleCount |-> state.cycleCount]
            /\ (IsJustCompleted(state) /\ state.phase = "work")
                  => /\ state'.phase \in {"short_break", "long_break"}
                     /\ state'.running
                     /\ state'.startTime = now
                     /\ state'.endTime = now + Duration(settings, state'.phase)
                     /\ state'.remainingTime = Null]_vars

\* a long break begun after a completed work phase, with the stored long
\* break duration
C22_Witness ==
    /\ hist.op = "afterWork"
    /\ state.phase = "long_break"
    /\ state.running
    /\ state.startTime = now
    /\ state.endTime = now + Duration(getSettings(storage), "long_break")

\* C23: every step that changes TimerState (the continuation of
\* startNextPhase, an effective pause or resume, reset, the end of the
\* timerEnd handler) publishes a statusUpdate carrying the state after the
\* change; hence the most recently published snapshot equals the current
\* TimerState from the first change on.
C23_ChangesArePublished ==
    [][state' # state => out'.published = Sent(state')]_vars

\* a running phase has been paused, nothing is pending, and the snapshot
\* published by the pause is the current state
C23_Witness ==
    /\ hist.op = "pause"
    /\ hist.pre.running
    /\ state # hist.pre
    /\ Quiescent
    /\ out.published = Sent(state)

\* C24: whenever the timer is running and no continuation, callback, handler
\* or timeout is pending, a timerEnd alarm is armed at the current endTime.
C24_RunningHasPhaseEndWake ==
    (state.running /\ Quiescent) => When(alarms, "timerEnd") = state.endTime

\* a phase resumed after a pause runs with nothing pending, its timerEnd
\* alarm armed by the second of two clearAll callbacks
C24_Witness ==
    /\ hist.op = "rearmed"
    /\ Quiescent
    /\ IsRunning(state)
    /\ When(alarms, "timerEnd") = state.endTime
    /\ state.startTime > StartNow

\* C25: the remainingTime stored by a pause taken while running is at least
\* 0 and at most the configured duration of the phase, and at most the
\* remainingTime stored by the previous pause of the same phase.
C25_RemainingTimeNeverGrows ==
    (hist.op = "pause" /\ hist.pre.running) =>
        /\ state.remainingTime >= 0
        /\ state.remainingTime <= Duration(getSettings(storage), state.phase)
        /\ hist.captured # Null => state.remainingTime <= hist.captured

\* a second pause of a phase, after the clock has moved and with time left
C25_Witness ==
    /\ hist.op = "pause"
    /\ hist.pre.running
    /\ hist.captured # Null
    /\ state.remainingTime > 0
    /\ state.remainingTime < hist.captured
    /\ hist.captured <= Duration(getSettings(storage), state.phase)

\* C26: the stored settings are changed only by the write of saveSettings,
\* never by start, pause, resume, reset, the alarm handlers or their
\* continuations; no step of saveSettings changes TimerState or the alarms,
\* so a phase that is running or paused keeps its endTime and remainingTime;
\* a phase begun afterwards gets the duration stored when it begins.
C26_SettingsFramedApart ==
    [][/\ storage'.settings # storage.settings
            => \E i \in 1..Len(saveQ) : SaveWrite(i)
       /\ (\/ \E newSettings \in FormSettings : CmdSaveSettings(newSettings)
           \/ \E i \in 1..Len(saveQ) : SaveRead(i)
           \/ \E i \in 1..Len(saveQ) : SaveWrite(i))
            => (state' = state /\ alarms' = alarms)
       /\ StartContinue
            => state'.endTime
                  = now + Duration(getSettings(storage), state'.phase)]_vars

\* the settings were saved while a phase was running, which has never been
\* paused: it runs with the length it was started with, which is no longer
\* the stored one
C26_Witness ==
    /\ state.running
    /\ run.captured = Null
    /\ saveQ = <<>>
    /\ When(alarms, "timerEnd") = state.endTime
    /\ state.endTime - state.startTime
          # Duration(getSettings(storage), state.phase)

====
